---- MODULE Spec2Model ----
(***************************************************************************)
(* scripts/linear_sync_docs.py: mirroring of the markdown files under      *)
(* docs/ into the descriptions of Linear issues.                           *)
(*                                                                         *)
(* Python strings are TLA+ strings; a character is a string of length 1.   *)
(* SANY accepts no U+0060 (backtick) inside a string literal, so the       *)
(* backtick is written as the apostrophe: three apostrophes are the triple *)
(* backtick. No input of the model contains an apostrophe of its own.      *)
(* Two specifications share the variables:                                 *)
(*   Spec    one run of sync_docs (and a second run on the updated remote) *)
(*   SpecTM  transform_markdown, one loop iteration per step               *)
(***************************************************************************)
EXTENDS Integers, Sequences, FiniteSets, TLC

VARIABLES
    \* ---- transform_markdown (lines 106-150)
    text,       \* the argument
    lines,      \* text.split("\n")
    idx,        \* position of the for loop in lines (1-based)
    in_code,    \* the fence flag
    out,        \* the output lines
    result,     \* the returned text
    again,      \* transform_markdown applied to the returned text
    tpc,        \* "call" | "loop" | "done" | "twice" | "idle"
    \* ---- sync_docs (lines 174-208) and the remote service
    remote,     \* issue id -> description held by the remote service
    before,     \* the descriptions the service held when the run started
    docs,       \* local path -> file content, for the files under docs/
    apply,      \* --apply
    limit,      \* --limit (None or an integer)
    pc,         \* "build_mapping" | "prepare" | "update" | "returned" | "raised" | "idle"
    mapping,    \* source path -> <<issue id, meta block>>
    updates,    \* the prepared records <<issue id, description, path>>
    k,          \* position of the update loop in updates (1-based)
    calls,      \* the issue-update calls issued so far, with their responses
    resp,       \* the response of the last remote call (None before any)
    outcome,    \* what graphql_request did with it: "returned" | "raised" | None
    ret,        \* the value sync_docs returned (None before it returns)
    run,        \* 1 for the first run, 2 for the run repeated on the updated remote
    first       \* in run 2, what run 1 built: <<[mapping, updates, before]>>

tmvars == <<text, lines, idx, in_code, out, result, again, tpc>>
syncvars == <<remote, before, docs, apply, limit, pc, mapping, updates, k,
              calls, resp, outcome, ret, run, first>>
vars == <<tmvars, syncvars>>

None == "None"

-----------------------------------------------------------------------------
(* Strings *)

Char(s, i) == SubSeq(s, i, i)

Drop(s, n) == SubSeq(s, n + 1, Len(s))

Take(s, n) == SubSeq(s, 1, n)

\* str.startswith
StartsWith(s, p) == Len(s) >= Len(p) /\ Take(s, Len(p)) = p

\* p occurs in s at position i (1-based)
At(s, i, p) == i >= 1 /\ i + Len(p) - 1 <= Len(s) /\ SubSeq(s, i, i + Len(p) - 1) = p

\* \s of the re module and the characters str.strip removes
Space == {" ", "\t", "\n", "\r", "\f"}

\* \d
Digit == {"0", "1", "2", "3", "4", "5", "6", "7", "8", "9"}

\* the length of the longest run of characters of the class that starts at position i
RECURSIVE RunLen(_, _, _)
RunLen(s, i, class) ==
    IF i > Len(s) \/ Char(s, i) \notin class THEN 0 ELSE 1 + RunLen(s, i + 1, class)

\* the length of the longest run of characters of the class that ends at position i
RECURSIVE RunLenBack(_, _, _)
RunLenBack(s, i, class) ==
    IF i < 1 \/ Char(s, i) \notin class THEN 0 ELSE 1 + RunLenBack(s, i - 1, class)

\* the number of characters from position i to the end of its line
RECURSIVE LineLen(_, _)
LineLen(s, i) ==
    IF i > Len(s) \/ Char(s, i) = "\n" THEN 0 ELSE 1 + LineLen(s, i + 1)

\* str.lstrip
LStrip(s) == Drop(s, RunLen(s, 1, Space))

\* str.rstrip
RStrip(s) == Take(s, Len(s) - RunLenBack(s, Len(s), Space))

\* str.strip
Strip(s) == RStrip(LStrip(s))

\* str.split("\n")
RECURSIVE Split(_)
Split(s) ==
    LET Breaks == {i \in 1..Len(s) : Char(s, i) = "\n"}
    IN  IF Breaks = {} THEN <<s>>
        ELSE LET i == CHOOSE b \in Breaks : \A b2 \in Breaks : b <= b2
             IN  <<Take(s, i - 1)>> \o Split(Drop(s, i))

\* "\n".join
RECURSIVE Join(_)
Join(ls) ==
    IF ls = <<>> THEN ""
    ELSE IF Len(ls) = 1 THEN ls[1]
    ELSE ls[1] \o "\n" \o Join(Tail(ls))

-----------------------------------------------------------------------------
(* transform_markdown, lines 106-150 *)

\* line 112
IsFenceLine_TildeIgnored(line) == StartsWith(LStrip(line), "'''")

IsFenceLine(line) ==
    StartsWith(LStrip(line), "'''") \/ StartsWith(LStrip(line), "~~~")

\* line 120
IsCheckboxLine(line) ==
    \/ StartsWith(LStrip(line), "- [ ]")
    \/ StartsWith(LStrip(line), "- [x]")
    \/ StartsWith(LStrip(line), "- [X]")

\* lines 124-130: group 1 of ^(\s*(?:>\s*)*)(.*)$ is the longest prefix made of
\* whitespace and '>' (the pattern always matches a line without "\n")
QuoteChar == Space \cup {">"}

BlockquotePrefix(line) == Take(line, RunLen(line, 1, QuoteChar))

BlockquoteRest(line) == Drop(line, RunLen(line, 1, QuoteChar))

\* lines 133-134
HasUnorderedMarker(rest) ==
    StartsWith(rest, "- ") \/ StartsWith(rest, "* ") \/ StartsWith(rest, "+ ")

\* line 142: ^(\d+)\.\s+(.*)$
OrderedDigits(rest) == RunLen(rest, 1, Digit)

HasOrderedMarker(rest) ==
    /\ OrderedDigits(rest) >= 1
    /\ At(rest, OrderedDigits(rest) + 1, ".")
    /\ RunLen(rest, OrderedDigits(rest) + 2, Space) >= 1

\* line 144: group 2 of the ordered pattern
OrderedContent(rest) ==
    Drop(rest, OrderedDigits(rest) + 1 + RunLen(rest, OrderedDigits(rest) + 2, Space))

\* lines 135-136 and 144-145
Checkbox(prefix, content) == prefix \o "- [ ] " \o content

\* one iteration of the loop at line 110, outside a fence, for a line that is
\* neither a fence nor a checkbox line (lines 124-148)
RewriteLine(line) ==
    LET prefix == BlockquotePrefix(line)
        rest == BlockquoteRest(line)
    IN  IF HasUnorderedMarker(rest) THEN Checkbox(prefix, Drop(rest, 2))
        ELSE IF HasOrderedMarker(rest) THEN Checkbox(prefix, OrderedContent(rest))
        ELSE line

\* the loop of lines 110-148 over ls, started with the fence flag c
RECURSIVE TransformLines(_, _)
TransformLines(ls, c) ==
    IF ls = <<>> THEN <<>>
    ELSE LET line == Head(ls)
         IN  IF IsFenceLine(line) THEN <<line>> \o TransformLines(Tail(ls), ~c)
             ELSE IF c THEN <<line>> \o TransformLines(Tail(ls), c)
             ELSE IF IsCheckboxLine(line) THEN <<line>> \o TransformLines(Tail(ls), c)
             ELSE <<RewriteLine(line)>> \o TransformLines(Tail(ls), c)

transform_markdown(t) == Join(TransformLines(Split(t), FALSE))

-----------------------------------------------------------------------------
(* The metadata block, lines 52-53 and 92-103 *)

MetaTag == "'''mirror-meta"

SourceKey == "source_path:"

Min(S) == CHOOSE x \in S : \A y \in S : x <= y

Max(S) == CHOOSE x \in S : \A y \in S : x >= y

\* where group 1 of MIRROR_META_RE starts in a match that starts at p: the tag
\* and then the whole run of whitespace (\s+ is greedy, and giving whitespace
\* back never finds a closing fence that the whole run does not)
MetaGroupStart(d, p) == p + Len(MetaTag) + RunLen(d, p + Len(MetaTag), Space)

\* the positions of the closing fence that a match starting at p can end with
MetaFences(d, p) == {q \in MetaGroupStart(d, p)..Len(d) : At(d, q, "'''")}

\* the positions where MIRROR_META_RE matches
MetaMatches(d) ==
    {p \in 1..Len(d) : /\ At(d, p, MetaTag)
                       /\ RunLen(d, p + Len(MetaTag), Space) >= 1
                       /\ MetaFences(d, p) # {}}

\* MIRROR_META_RE.search: the leftmost match, its group ending at the first
\* closing fence (the group is lazy)
MirrorMetaSearch(d) ==
    LET p == Min(MetaMatches(d))
    IN  [start |-> p, gstart |-> MetaGroupStart(d, p), gend |-> Min(MetaFences(d, p))]

\* lines 93 and 158: description or ""
OrEmpty(description) == IF description = None THEN "" ELSE description

\* lines 92-96
extract_meta_block(description) ==
    IF MetaMatches(OrEmpty(description)) = {} THEN None
    ELSE LET m == MirrorMetaSearch(OrEmpty(description))
         IN  "'''mirror-meta\n" \o SubSeq(OrEmpty(description), m.gstart, m.gend - 1) \o "'''"

\* ^ and $ under re.MULTILINE
AtLineStart(s, i) == i = 1 \/ (i >= 2 /\ i <= Len(s) + 1 /\ Char(s, i - 1) = "\n")

AtLineEnd(s, i) == i = Len(s) + 1 \/ (i >= 1 /\ i <= Len(s) /\ Char(s, i) = "\n")

\* where the key of SOURCE_PATH_RE starts in a match that starts at p
SourceKeyStart(s, p) == p + RunLen(s, p, Space)

\* group 1 of SOURCE_PATH_RE may be s[j..e-1]: the second \s* ends at j, the
\* group (.+?) holds at least one character and no newline, and the third \s*
\* reaches an end of line
SourceGroupOk(s, j, e) == \E f \in e..(e + RunLen(s, e, Space)) : AtLineEnd(s, f)

\* the groups <<j, e>> of the matches that start at p
SourceGroups(s, p) ==
    LET b == SourceKeyStart(s, p) + Len(SourceKey)
    IN  UNION {{<<j, e>> : e \in {x \in (j + 1)..(j + LineLen(s, j)) : SourceGroupOk(s, j, x)}} :
               j \in b..(b + RunLen(s, b, Space))}

\* the positions where SOURCE_PATH_RE matches
SourceMatches(s) ==
    {p \in 1..(Len(s) + 1) : /\ AtLineStart(s, p)
                             /\ At(s, SourceKeyStart(s, p), SourceKey)
                             /\ SourceGroups(s, p) # {}}

\* lines 99-103: the leftmost match; the second \s* is greedy (the largest j)
\* and the group lazy (then the smallest e)
extract_source_path(meta_block) ==
    IF meta_block = None \/ SourceMatches(meta_block) = {} THEN None
    ELSE LET p == Min(SourceMatches(meta_block))
             G == SourceGroups(meta_block, p)
             j == Max({je[1] : je \in G})
             e == Min({je[2] : je \in {g \in G : g[1] = j}})
         IN  Strip(SubSeq(meta_block, j, e - 1))

\* lines 168-171
build_description_MetaDropped(meta_block, content) == content

build_description(meta_block, content) ==
    IF meta_block = None \/ meta_block = "" THEN content
    ELSE meta_block \o "\n\n" \o content

-----------------------------------------------------------------------------
(* The inputs of transform_markdown *)

\* the longest document, in lines
MaxLines == 4

\* lines of every kind the loop distinguishes
SampleLines ==
    {"'''", "~~~", "  '''py", "- a", "* a", "+ a", "2. a", "> - a", "- [x] a", "a"}

SampleTexts ==
    {Join(ls) : ls \in UNION {[1..n -> SampleLines] : n \in 0..MaxLines}}

-----------------------------------------------------------------------------
(* transform_markdown as the loop the code runs *)

TmIdle ==
    /\ text = "" /\ lines = <<>> /\ idx = 0 /\ in_code = FALSE
    /\ out = <<>> /\ result = "" /\ again = "" /\ tpc = "idle"

\* lines 107-109
TmSplit ==
    /\ tpc = "call"
    /\ lines' = Split(text)
    /\ out' = <<>>
    /\ in_code' = FALSE
    /\ idx' = 1
    /\ tpc' = "loop"
    /\ UNCHANGED <<text, result, again, syncvars>>

\* the loop emits o for the current line and moves on
Emit(o) ==
    /\ out' = Append(out, o)
    /\ idx' = idx + 1
    /\ UNCHANGED <<text, lines, result, again, tpc, syncvars>>

InLoop == tpc = "loop" /\ idx <= Len(lines)

\* lines 112-115
TmFence ==
    /\ InLoop
    /\ IsFenceLine(lines[idx])
    /\ in_code' = ~in_code
    /\ Emit(lines[idx])

\* lines 116-118
TmInCode ==
    /\ InLoop
    /\ ~IsFenceLine(lines[idx])
    /\ in_code
    /\ UNCHANGED in_code
    /\ Emit(lines[idx])

\* lines 120-122
TmCheckbox ==
    /\ InLoop
    /\ ~IsFenceLine(lines[idx])
    /\ ~in_code
    /\ IsCheckboxLine(lines[idx])
    /\ UNCHANGED in_code
    /\ Emit(lines[idx])

\* the line reaches line 124
Rewritable == InLoop /\ ~IsFenceLine(lines[idx]) /\ ~in_code /\ ~IsCheckboxLine(lines[idx])

\* lines 124-140
TmUnordered ==
    /\ Rewritable
    /\ HasUnorderedMarker(BlockquoteRest(lines[idx]))
    /\ UNCHANGED in_code
    /\ Emit(Checkbox(BlockquotePrefix(lines[idx]), Drop(BlockquoteRest(lines[idx]), 2)))

\* lines 142-146
TmOrdered ==
    /\ Rewritable
    /\ ~HasUnorderedMarker(BlockquoteRest(lines[idx]))
    /\ HasOrderedMarker(BlockquoteRest(lines[idx]))
    /\ UNCHANGED in_code
    /\ Emit(Checkbox(BlockquotePrefix(lines[idx]), OrderedContent(BlockquoteRest(lines[idx]))))

\* line 148
TmOther ==
    /\ Rewritable
    /\ ~HasUnorderedMarker(BlockquoteRest(lines[idx]))
    /\ ~HasOrderedMarker(BlockquoteRest(lines[idx]))
    /\ UNCHANGED in_code
    /\ Emit(lines[idx])

\* line 150
TmReturn ==
    /\ tpc = "loop"
    /\ idx > Len(lines)
    /\ result' = Join(out)
    /\ tpc' = "done"
    /\ UNCHANGED <<text, lines, idx, in_code, out, again, syncvars>>

\* the caller transforms the returned text once more
TmAgain ==
    /\ tpc = "done"
    /\ again' = transform_markdown(result)
    /\ tpc' = "twice"
    /\ UNCHANGED <<text, lines, idx, in_code, out, result, syncvars>>

NextTM ==
    \/ TmSplit
    \/ TmFence
    \/ TmInCode
    \/ TmCheckbox
    \/ TmUnordered
    \/ TmOrdered
    \/ TmOther
    \/ TmReturn
    \/ TmAgain

-----------------------------------------------------------------------------
(* The inputs of sync_docs *)

\* the number of entries of PROJECT_IDS
NumProjects == 12

\* the number of issues the remote service holds
NumIssues == 3

\* --limit ranges over None and -1..MaxLimit
MaxLimit == 2

Issues == 1..NumIssues

\* the collection an issue belongs to: two issues per collection
ProjectOf(i) == (i + 1) \div 2

\* the files docs/ may hold, with their content
LocalFiles ==
    "docs/a.md" :> "# A\n- x\n> - y" @@ "docs/b.md" :> "2. z\n'''\n- raw\n'''"

\* descriptions of an issue: without a block, with the block as the tool writes
\* it, with a block a human wrote (text before it, whitespace after the tag,
\* a key of their own), with a block for another file, with no source_path
SampleDescriptions ==
    {"notes",
     "'''mirror-meta\nsource_path: docs/a.md\n'''\n\nold",
     "intro\n'''mirror-meta \n\nsource_path: docs/a.md \nowner: kim\n'''\nold",
     "'''mirror-meta\nsource_path: docs/b.md\n'''",
     "'''mirror-meta\nowner: kim\n'''"}

\* an absent optional value is <<>>, a present one <<v>>
Limits == {<<>>} \cup {<<n>> : n \in (-1)..MaxLimit}

\* what the service may answer to one call: the HTTP status and, for a 2xx
\* answer, whether the JSON body has an "errors" member and the list it holds
Responses ==
    {[status |-> 200, has_errors |-> FALSE, errors |-> <<>>],
     [status |-> 200, has_errors |-> TRUE, errors |-> <<>>],
     [status |-> 200, has_errors |-> TRUE, errors |-> <<"forbidden">>],
     [status |-> 500, has_errors |-> FALSE, errors |-> <<>>]}

-----------------------------------------------------------------------------
(* graphql_request, lines 56-76 *)

graphql_request_ErrorsIgnored(r) ==
    IF r.status < 200 \/ r.status > 299 THEN "raised" ELSE "returned"

\* urlopen raises HTTPError for a status that is not 2xx (line 70); line 74
\* raises when the body has an "errors" member; line 76 returns the data
graphql_request(r) ==
    IF r.status < 200 \/ r.status > 299 THEN "raised"
    ELSE IF r.has_errors THEN "raised"
    ELSE "returned"

-----------------------------------------------------------------------------
(* build_mapping, lines 153-165, and fetch_issues, lines 79-89 *)

\* the nodes the list query of a collection returns: its issues in ascending
\* order of identifier, on one page (a collection holds fewer than 100 issues)
RECURSIVE IssuesFrom(_, _)
IssuesFrom(i, j) ==
    IF i > NumIssues THEN <<>>
    ELSE IF ProjectOf(i) = j
         THEN <<[id |-> i, description |-> remote[i]]>> \o IssuesFrom(i + 1, j)
         ELSE IssuesFrom(i + 1, j)

fetch_issues(j) == IssuesFrom(1, j)

\* line 164
Assign(m, path, v) == [p \in DOMAIN m \cup {path} |-> IF p = path THEN v ELSE m[p]]

\* lines 161-164
MapPath(m, id, meta_block, source_path) ==
    IF source_path = None \/ source_path = "" THEN m
    ELSE Assign(m, source_path, <<id, meta_block>>)

\* lines 158-161
MapIssue(m, id, meta_block) ==
    IF meta_block = None THEN m
    ELSE MapPath(m, id, meta_block, extract_source_path(meta_block))

\* line 157
RECURSIVE MapIssues(_, _)
MapIssues(issues, m) ==
    IF issues = <<>> THEN m
    ELSE MapIssues(Tail(issues),
                   MapIssue(m, Head(issues).id, extract_meta_block(Head(issues).description)))

\* lines 155-156
RECURSIVE MapProjects(_, _)
MapProjects(j, m) ==
    IF j > NumProjects THEN m
    ELSE MapProjects(j + 1, MapIssues(fetch_issues(j), m))

build_mapping == MapProjects(1, <<>>)

-----------------------------------------------------------------------------
(* sync_docs, lines 174-208 *)

\* the characters in ascending order of code point (U+0020..U+007E)
Ascii ==
    " !\"#$%&()*+,-./0123456789:;<=>?@ABCDEFGHIJKLMNOPQRSTUVWXYZ[\\]^_'abcdefghijklmnopqrstuvwxyz{|}~"

CodePoint(c) == CHOOSE i \in 1..Len(Ascii) : Char(Ascii, i) = c

\* a < b for two str
RECURSIVE StrLess(_, _)
StrLess(a, b) ==
    IF a = "" THEN b # ""
    ELSE IF b = "" THEN FALSE
    ELSE IF Char(a, 1) = Char(b, 1) THEN StrLess(Drop(a, 1), Drop(b, 1))
    ELSE CodePoint(Char(a, 1)) < CodePoint(Char(b, 1))

RECURSIVE sorted_Descending(_)
sorted_Descending(S) ==
    IF S = {} THEN <<>>
    ELSE LET m == CHOOSE x \in S : \A y \in S : x = y \/ StrLess(y, x)
         IN  <<m>> \o sorted_Descending(S \ {m})

\* line 176: sorted
RECURSIVE sorted(_)
sorted(S) ==
    IF S = {} THEN <<>>
    ELSE LET m == CHOOSE x \in S : \A y \in S : x = y \/ StrLess(x, y)
         IN  <<m>> \o sorted(S \ {m})

\* line 176: the paths of the files under docs/
repo_docs == sorted(DOMAIN docs)

\* lines 186-187: "if limit" is false for None and for 0; a slice [:n] with
\* n < 0 drops the last -n elements
Truncate(rd, lim) ==
    IF lim = <<>> \/ lim[1] = 0 THEN rd
    ELSE IF lim[1] > 0 THEN Take(rd, IF lim[1] < Len(rd) THEN lim[1] ELSE Len(rd))
    ELSE Take(rd, IF Len(rd) + lim[1] > 0 THEN Len(rd) + lim[1] ELSE 0)

missing_AfterLimit(rd, m) == SelectSeq(Truncate(rd, limit), LAMBDA path : path \notin DOMAIN m)

\* line 178
missing(rd, m) == SelectSeq(rd, LAMBDA path : path \notin DOMAIN m)

\* lines 189-195
Prepared(rd, m) ==
    [i \in 1..Len(rd) |->
        [issue_id |-> m[rd[i]][1],
         description |-> build_description(m[rd[i]][2], transform_markdown(docs[rd[i]])),
         path |-> rd[i]]]

dry_run_Never == FALSE

\* line 198
dry_run == ~apply

SyncIdle ==
    /\ remote = <<>> /\ before = <<>> /\ docs = <<>> /\ apply = FALSE /\ limit = <<>>
    /\ pc = "idle" /\ mapping = <<>> /\ updates = <<>> /\ k = 0 /\ calls = <<>>
    /\ resp = <<>> /\ outcome = None /\ ret = <<>> /\ run = 0
    /\ first = <<>>

inputs == <<remote, before, docs, apply, limit, run, first>>

\* line 175, the list queries all answered: one query per collection
BuildMappingOk ==
    /\ pc = "build_mapping"
    /\ \E r \in Responses :
        /\ graphql_request(r) = "returned"
        /\ resp' = <<r>>
        /\ outcome' = graphql_request(r)
    /\ mapping' = build_mapping
    /\ pc' = "prepare"
    /\ UNCHANGED <<inputs, updates, k, calls, ret, tmvars>>

\* line 175, one of the list queries fails: the exception leaves sync_docs
BuildMappingRaises ==
    /\ pc = "build_mapping"
    /\ \E r \in Responses :
        /\ graphql_request(r) = "raised"
        /\ resp' = <<r>>
        /\ outcome' = graphql_request(r)
    /\ pc' = "raised"
    /\ UNCHANGED <<inputs, mapping, updates, k, calls, ret, tmvars>>

\* lines 176-184: the gate
GateAbort ==
    /\ pc = "prepare"
    /\ missing(repo_docs, mapping) # <<>>
    /\ ret' = <<1>>
    /\ pc' = "returned"
    /\ UNCHANGED <<inputs, mapping, updates, k, calls, resp, outcome, tmvars>>

\* lines 176-202: the gate passes, the records are prepared, the run is a preview
Preview ==
    /\ pc = "prepare"
    /\ missing(repo_docs, mapping) = <<>>
    /\ updates' = Prepared(Truncate(repo_docs, limit), mapping)
    /\ dry_run
    /\ ret' = <<0>>
    /\ pc' = "returned"
    /\ UNCHANGED <<inputs, mapping, k, calls, resp, outcome, tmvars>>

\* lines 176-204: the gate passes, the records are prepared, the loop of updates starts
StartUpdates ==
    /\ pc = "prepare"
    /\ missing(repo_docs, mapping) = <<>>
    /\ updates' = Prepared(Truncate(repo_docs, limit), mapping)
    /\ ~dry_run
    /\ k' = 1
    /\ pc' = "update"
    /\ UNCHANGED <<inputs, mapping, calls, resp, outcome, ret, tmvars>>

\* the update call of the k-th record, answered with r
Call(r) ==
    [issue_id |-> updates[k].issue_id, description |-> updates[k].description,
     path |-> updates[k].path, outcome |-> graphql_request(r)]

UpdateRaises_Isolated ==
    /\ pc = "update"
    /\ k <= Len(updates)
    /\ \E r \in Responses :
        /\ graphql_request(r) = "raised"
        /\ calls' = Append(calls, Call(r))
        /\ resp' = <<r>>
        /\ outcome' = graphql_request(r)
    /\ k' = k + 1
    /\ UNCHANGED <<inputs, mapping, updates, ret, pc, tmvars>>

\* line 205, the call returns: the service has stored the description
UpdateOk ==
    /\ pc = "update"
    /\ k <= Len(updates)
    /\ \E r \in Responses :
        /\ graphql_request(r) = "returned"
        /\ calls' = Append(calls, Call(r))
        /\ resp' = <<r>>
        /\ outcome' = graphql_request(r)
    /\ remote' = [remote EXCEPT ![updates[k].issue_id] = updates[k].description]
    /\ k' = k + 1
    /\ UNCHANGED <<before, docs, apply, limit, run, first, mapping, updates, ret,
                   pc, tmvars>>

\* line 205, the call fails: the exception leaves sync_docs, and the service
\* has stored nothing for this call
UpdateRaises ==
    /\ pc = "update"
    /\ k <= Len(updates)
    /\ \E r \in Responses :
        /\ graphql_request(r) = "raised"
        /\ calls' = Append(calls, Call(r))
        /\ resp' = <<r>>
        /\ outcome' = graphql_request(r)
    /\ pc' = "raised"
    /\ UNCHANGED <<inputs, mapping, updates, k, ret, tmvars>>

\* line 208
UpdatesDone ==
    /\ pc = "update"
    /\ k > Len(updates)
    /\ ret' = <<0>>
    /\ pc' = "returned"
    /\ UNCHANGED <<inputs, mapping, updates, k, calls, resp, outcome, tmvars>>

\* the tool is run again after an apply-mode run returned 0, with the same
\* arguments and files, on the descriptions the first run left
Rerun ==
    /\ pc = "returned"
    /\ ret = <<0>>
    /\ apply
    /\ run = 1
    /\ run' = 2
    /\ first' = <<[mapping |-> mapping, updates |-> updates, before |-> before]>>
    /\ before' = remote
    /\ pc' = "build_mapping"
    /\ mapping' = <<>>
    /\ updates' = <<>>
    /\ k' = 0
    /\ calls' = <<>>
    /\ resp' = <<>>
    /\ outcome' = None
    /\ ret' = <<>>
    /\ UNCHANGED <<remote, docs, apply, limit, tmvars>>

Init ==
    /\ TmIdle
    /\ remote \in [Issues -> SampleDescriptions]
    /\ before = remote
    /\ docs \in {[p \in S |-> LocalFiles[p]] : S \in SUBSET DOMAIN LocalFiles}
    /\ apply \in BOOLEAN
    /\ limit \in Limits
    /\ pc = "build_mapping"
    /\ mapping = <<>>
    /\ updates = <<>>
    /\ k = 0
    /\ calls = <<>>
    /\ resp = <<>>
    /\ outcome = None
    /\ ret = <<>>
    /\ run = 1
    /\ first = <<>>

Next ==
    \/ BuildMappingOk
    \/ BuildMappingRaises
    \/ GateAbort
    \/ Preview
    \/ StartUpdates
    \/ UpdateOk
    \/ UpdateRaises
    \/ UpdatesDone
    \/ Rerun

Spec == Init /\ [][Next]_vars

InitTM ==
    /\ SyncIdle
    /\ text \in SampleTexts
    /\ lines = <<>>
    /\ idx = 0
    /\ in_code = FALSE
    /\ out = <<>>
    /\ result = ""
    /\ again = ""
    /\ tpc = "call"

SpecTM == InitTM /\ [][NextTM]_vars

-----------------------------------------------------------------------------
(* Properties of sync_docs, checked under Spec *)

\* sync_docs has built the mapping and gone through the gate
PastGate == pc \in {"update", "returned"} \/ (pc = "raised" /\ calls # <<>>)

\* every file under docs/ is a key of the mapping
AllMapped == \A p \in DOMAIN docs : p \in DOMAIN mapping

\* C1: when a local document path is not a key of the mapping, the run
\* returns a non-zero value and has issued no issue-update call, whatever
\* apply and limit are (the gate looks at the full list of documents).
C1_GateAborts ==
    (PastGate /\ ~AllMapped) =>
        /\ pc = "returned"
        /\ ret # <<>> /\ ret[1] # 0
        /\ calls = <<>>
        /\ remote = before

\* an apply-mode run with --limit 1 was stopped by the gate although the only
\* unmapped document lies beyond the limit
C1_Witness ==
    /\ pc = "returned" /\ ret = <<1>> /\ apply /\ limit = <<1>>
    /\ Len(repo_docs) = 2
    /\ repo_docs[1] \in DOMAIN mapping
    /\ repo_docs[2] \notin DOMAIN mapping

\* C2: in preview mode (apply false) no issue-update call is issued and the
\* descriptions held by the service stay as they were, for any documents and
\* any limit; when the gate passes the run returns 0.
C2_PreviewWritesNothing ==
    ~apply =>
        /\ calls = <<>>
        /\ remote = before
        /\ pc # "update"
        /\ (pc = "returned" /\ AllMapped) => ret = <<0>>

\* a preview that prepared two records has returned 0
C2_Witness == ~apply /\ pc = "returned" /\ ret = <<0>> /\ Len(updates) = 2

\* C3: in apply mode, when the gate passes and no remote call fails, there is
\* exactly one update call per prepared record, the calls are issued in
\* ascending lexicographic order of document path, each carries the issue
\* identifier the mapping gives that path, and the run returns 0.
C3_OneCallPerRecord ==
    (apply /\ pc \in {"update", "returned"} /\ AllMapped) =>
        /\ \A i \in 1..(Len(updates) - 1) : StrLess(updates[i].path, updates[i + 1].path)
        /\ \A i \in 1..Len(updates) : updates[i].issue_id = mapping[updates[i].path][1]
        /\ Len(calls) = IF pc = "returned" THEN Len(updates) ELSE k - 1
        /\ \A i \in 1..Len(calls) :
            /\ calls[i].path = updates[i].path
            /\ calls[i].issue_id = updates[i].issue_id
            /\ calls[i].description = updates[i].description
        /\ pc = "returned" => ret = <<0>>

\* an apply-mode run has issued two calls and returned 0
C3_Witness == apply /\ pc = "returned" /\ ret = <<0>> /\ Len(calls) = 2 /\ Len(updates) = 2

\* C4: when the update call of the k-th record fails the run stops there: no
\* call follows it, the run does not return, and the descriptions written by
\* the calls before it stay on the service (nothing is rolled back, and no
\* other description is touched).
C4_FailureAborts ==
    /\ \A i \in 1..Len(calls) :
        calls[i].outcome = "raised" => (i = Len(calls) /\ pc = "raised" /\ ret = <<>>)
    /\ \A i \in 1..Len(calls) :
        calls[i].outcome = "returned" => remote[calls[i].issue_id] = calls[i].description
    /\ \A id \in DOMAIN remote :
        (\A i \in 1..Len(calls) : calls[i].issue_id # id \/ calls[i].outcome = "raised")
            => remote[id] = before[id]

\* the second of two update calls failed after the first one changed a description
C4_Witness ==
    /\ pc = "raised" /\ Len(calls) = 2
    /\ calls[1].outcome = "returned" /\ calls[2].outcome = "raised"
    /\ remote[calls[1].issue_id] = calls[1].description
    /\ before[calls[1].issue_id] # calls[1].description

\* the text MIRROR_META_RE matches in d, as it stands in d
RawBlock(d) == SubSeq(d, MirrorMetaSearch(d).start, MirrorMetaSearch(d).gend + 2)

\* C7: the description written for an issue whose description held a
\* mirror-meta block begins with that block exactly as it stood there (from
\* the opening fence through the closing fence), followed by a blank line and
\* the transformed document.
C7_BlockVerbatim ==
    \A i \in 1..Len(calls) :
        MetaMatches(before[calls[i].issue_id]) # {} =>
            calls[i].description =
                RawBlock(before[calls[i].issue_id]) \o "\n\n"
                    \o transform_markdown(docs[calls[i].path])

\* the smaller of two integers
Smaller(a, b) == IF a < b THEN a ELSE b

\* C8: with a limit N >= 0 given and the gate passed, the prepared records are
\* the first min(N, number of documents) documents in sorted order, also for
\* N = 0.
C8_LimitTruncates ==
    (pc \in {"update", "returned"} /\ AllMapped /\ limit # <<>> /\ limit[1] >= 0) =>
        /\ Len(updates) = Smaller(limit[1], Len(repo_docs))
        /\ \A i \in 1..Len(updates) : updates[i].path = repo_docs[i]

\* C9, as stated: a call fails exactly when the status is not a success or
\* the response carries a non-empty error list; with a success status and no
\* error list or an empty one it returns.
C9_NonEmptyErrorsFatal ==
    resp # <<>> =>
        (outcome = "raised" <=>
            (resp[1].status \notin 200..299 \/ (resp[1].has_errors /\ resp[1].errors # <<>>)))

\* C9, amended: a call fails exactly when the status is not a success or the
\* response has an "errors" member, whether its list is empty or not; with a
\* success status and no "errors" member it returns; a failed call ends the run.
C9_ErrorsMemberFatal ==
    resp # <<>> =>
        /\ outcome = "raised" <=> (resp[1].status \notin 200..299 \/ resp[1].has_errors)
        /\ outcome = "returned" <=> (resp[1].status \in 200..299 /\ ~resp[1].has_errors)
        /\ outcome = "raised" <=> pc = "raised"

\* an update call answered 200 with an empty error list has ended the run
C9_Witness ==
    /\ resp = <<[status |-> 200, has_errors |-> TRUE, errors |-> <<>>]>>
    /\ outcome = "raised" /\ pc = "raised" /\ calls # <<>>

\* C10: after an apply-mode run that returned 0, the mapping rebuilt from the
\* updated descriptions gives every synced path the same issue identifier and
\* the same metadata block (extract_meta_block finds in each written
\* description the block it was built from), so the second run passes the
\* gate, prepares the same records and leaves the descriptions as they are.
C10_RerunStable ==
    (run = 2 /\ (pc = "prepare" \/ PastGate)) =>
        /\ \A i \in 1..Len(first[1].updates) :
            /\ first[1].updates[i].path \in DOMAIN mapping
            /\ mapping[first[1].updates[i].path] = first[1].mapping[first[1].updates[i].path]
            /\ extract_meta_block(first[1].updates[i].description)
                 = first[1].mapping[first[1].updates[i].path][2]
        /\ AllMapped
        /\ PastGate => updates = first[1].updates
        /\ pc = "returned" => (ret = <<0>> /\ remote = before)

\* the second run has returned after the first one rewrote two descriptions,
\* one of them written by a human (text before the block)
C10_Witness ==
    /\ run = 2 /\ pc = "returned" /\ Len(updates) = 2
    /\ first[1].before # before
    /\ \E i \in 1..2 : StartsWith(first[1].before[updates[i].issue_id], "intro")

-----------------------------------------------------------------------------
(* Properties of transform_markdown, checked under SpecTM *)

\* C5: transforming the text transform_markdown returned gives that text again.
C5_Idempotent == tpc = "twice" => again = result

\* a line toggles the fence flag
C6_Toggle(line) == StartsWith(LStrip(line), "'''") \/ StartsWith(LStrip(line), "~~~")

\* an odd number of the first n lines toggle
C6_Odd(n) == Cardinality({i \in 1..n : C6_Toggle(lines[i])}) % 2 = 1

\* C6: the scanner's state is one boolean, toggled by every line whose
\* left-stripped content starts with a triple backtick or a triple tilde
\* (either closes what the other opened); a toggling line, and a line read
\* after an odd number of toggles, is emitted unchanged even if it looks like
\* a list item, so an unclosed fence leaves the rest of the document unchanged.
C6_FenceScanner ==
    tpc \in {"loop", "done", "twice"} =>
        /\ Len(out) = idx - 1
        /\ in_code = C6_Odd(idx - 1)
        /\ \A i \in 1..Len(out) : (C6_Toggle(lines[i]) \/ C6_Odd(i - 1)) => out[i] = lines[i]
        /\ tpc \in {"done", "twice"} => (Len(out) = Len(lines) /\ result = Join(out))

\* a list item between a backtick fence and the tilde fence that closes it
\* came out unchanged, and the list item after the closing fence was rewritten
C6_Witness ==
    /\ tpc = "done" /\ Len(lines) = 4
    /\ StartsWith(lines[1], "'''") /\ StartsWith(lines[3], "~~~")
    /\ HasUnorderedMarker(lines[2]) /\ out[2] = lines[2]
    /\ HasUnorderedMarker(lines[4]) /\ out[4] = Checkbox("", Drop(lines[4], 2))

====
